---- MODULE Spec2Model ----
(***************************************************************************)
(* TwitchCounter: the capture / transcription pipeline of                  *)
(* twitch_word_counter.py (class TwitchWordCounter) together with the      *)
(* snapshot-polling thread of app.py (update_counts).                      *)
(*                                                                         *)
(* Threads of the model:                                                   *)
(*   main    the thread that executes TwitchWordCounter.start()            *)
(*   stream  TwitchWordCounter.stream_audio  (capture + segmenter)         *)
(*   proc    TwitchWordCounter.process_audio (transcription consumer)      *)
(*   poll    app.update_counts               (web deployment only)         *)
(*                                                                         *)
(* Text is a sequence of one-character strings, so that lower-casing and   *)
(* the regular expression \b<word>\b are computed, not assumed.            *)
(***************************************************************************)
EXTENDS Integers, Sequences, FiniteSets, TLC

VARIABLES
    mode,           \* "cli": main() of twitch_word_counter.py; "web": app.py
    target_words,   \* self.target_words (list, lower-cased by __init__)
    feed,           \* the transcripts the recognition service will yield, in order
    running,        \* self.running
    audio_queue,    \* self.audio_queue (queue.Queue of temp file names)
    word_counts,    \* self.word_counts (collections.Counter)
    main_pc, exports, exported, spawned,
    stream_pc, frames, produced, capture_fault,
    proc_pc, audio_file, nchunks, chunk_i, word_j, tmp,
    dequeued, completed, failed, fed, faults,
    unit_files, chunk_files,
    poll_i, published,
    m_word, m_text, m_count, m_pc,
    now,            \* datetime.now(), in whole seconds since construction
    start_time,     \* self.start_time
    started_at,     \* the clock reading when start() set the running flag
    exported_start, \* the "start_time" field of the export
    tables,         \* every value self.word_counts has held so far
    elapsed_pc, elapsed_out

cfgv    == <<mode, target_words, feed>>
mainv   == <<main_pc, exports, exported, spawned>>
streamv == <<stream_pc, frames, produced, capture_fault>>
procv   == <<proc_pc, audio_file, nchunks, chunk_i, word_j, tmp,
             dequeued, completed, failed, fed, faults>>
filev   == <<unit_files, chunk_files>>
pollv   == <<poll_i, published>>
matchv  == <<m_word, m_text, m_count, m_pc>>
clockv  == <<now, start_time, started_at, exported_start>>
elapsedv == <<elapsed_pc, elapsed_out>>
vars    == <<cfgv, running, audio_queue, word_counts, mainv, streamv, procv,
             filev, pollv, matchv, clockv, elapsedv, tables>>

(***************************************************************************)
(* Bounds of the model.                                                    *)
(***************************************************************************)
MaxUnits      == 3   \* AudioUnits the capture produces in one run
MaxClips      == 2   \* sub-clips split_on_silence yields per unit
MaxFaults     == 1   \* injected per-unit failures in one run
PartialChunks == 1   \* chunks held when a read burst ends inside a window
MaxRestarts   == 1   \* further start() calls on a stopped instance
MaxWordLen    == 2   \* length of the target word of the matcher harness
MaxTextLen    == 4   \* length of the transcript of the matcher harness
MaxElapsed    == 90000 \* longest session, in seconds, of the elapsed-time harness
MaxClock      == 2   \* ticks of the clock in one run of the pipeline

(***************************************************************************)
(* Audio parameters, __init__ lines 51-56. SampleWidth is the sample size  *)
(* of pyaudio.paInt16 in bytes (lines 51 and 163).                         *)
(***************************************************************************)
SampleWidth   == 2
Channels      == 1
Rate          == 16000
Chunk         == 1024
RecordSeconds == 5

\* int(self.rate / self.chunk * self.record_seconds): float division, then
\* multiplication, then truncation; computed here in exact integers.
chunks_per_recording == (Rate * RecordSeconds) \div Chunk

\* len(b''.join(frames)) for n chunks, each the result of
\* process.stdout.read(self.chunk): self.chunk bytes per read.
FrameBytes(n) == n * Chunk

\* The bytes of one window of audio at the configured parameters.
WindowBytes == RecordSeconds * Rate * Channels * SampleWidth

(***************************************************************************)
(* Characters and text.                                                    *)
(***************************************************************************)
UpperCase == <<"A","B","C","D","E","F","G","H","I","J","K","L","M",
               "N","O","P","Q","R","S","T","U","V","W","X","Y","Z">>
LowerCase == <<"a","b","c","d","e","f","g","h","i","j","k","l","m",
               "n","o","p","q","r","s","t","u","v","w","x","y","z">>
Digits    == {"0","1","2","3","4","5","6","7","8","9"}

Range(s) == {s[i] : i \in DOMAIN s}

UpperSet == Range(UpperCase)
AlnumSet == UpperSet \cup Range(LowerCase) \cup Digits

\* str.isalnum() on one character.
IsAlnum(c) == c \in AlnumSet

\* \w of Python's re for str patterns: alphanumerics and the underscore.
IsWordChar(c) == IsAlnum(c) \/ c = "_"

\* str.lower() on one character.
LowerOf ==
    [c \in UpperSet |-> LowerCase[CHOOSE i \in DOMAIN UpperCase : UpperCase[i] = c]]

LowerChar(c) == IF c \in UpperSet THEN LowerOf[c] ELSE c

\* str.lower()
Lower(s) == [i \in DOMAIN s |-> LowerChar(s[i])]

\* [word.lower() for word in target_words]
LowerWords(ws) == [i \in DOMAIN ws |-> Lower(ws[i])]

\* \b at the gap in front of t[k] (k = Len(t)+1: the end of the text): exactly
\* one of the two neighbours is a word character; outside the text counts as
\* a non-word character.
WordAt(t, k) == k >= 1 /\ k <= Len(t) /\ IsWordChar(t[k])
Boundary(t, k) == WordAt(t, k - 1) # WordAt(t, k)

\* re.escape(word) matched literally at position k of t.
LiteralAt(w, t, k) ==
    /\ k + Len(w) - 1 <= Len(t)
    /\ \A i \in 1..Len(w) : t[k + i - 1] = w[i]

\* Mutant of PatternAt: the closing \b is missing, so the word also matches
\* as the beginning of a longer word.
PatternAtNoClosingBoundary(w, t, k) ==
    /\ Boundary(t, k)
    /\ LiteralAt(w, t, k)

\* The pattern r'\b' + re.escape(word) + r'\b' matches at position k.
PatternAt(w, t, k) ==
    /\ Boundary(t, k)
    /\ LiteralAt(w, t, k)
    /\ Boundary(t, k + Len(w))

\* len(re.findall(pattern, text)): leftmost, non-overlapping matches.
RECURSIVE FindAllFrom(_, _, _)
FindAllFrom(w, t, k) ==
    IF k > Len(t) THEN 0
    ELSE IF PatternAt(w, t, k)
         THEN 1 + FindAllFrom(w, t, k + (IF Len(w) = 0 THEN 1 ELSE Len(w)))
         ELSE FindAllFrom(w, t, k + 1)

CountMatches(w, t) == FindAllFrom(w, t, 1)

(***************************************************************************)
(* Inputs: the configured target word list (as passed to __init__, before  *)
(* lower-casing) and the transcripts the recognition service yields, in    *)
(* order, for the sub-clips it recognizes.                                 *)
(***************************************************************************)
W_fuck    == <<"f","u","c","k">>
W_Fuck    == <<"F","u","c","k">>
W_game    == <<"g","a","m","e">>
T_fucked  == <<"t","h","a","t"," ","i","s"," ","f","u","c","k","e","d"," ","u","p">>
T_fucking == <<"I"," ","l","o","v","e"," ","t","h","i","s"," ","f","u","c","k","i","n","g"," ","g","a","m","e">>
T_both    == <<"F","u","c","k"," ","t","h","i","s"," ","g","a","m","e"," ","f","u","c","k">>


\* What the recognition service returns, by name.
Transcript == [fucked |-> T_fucked, fucking |-> T_fucking, both |-> T_both]

Inputs ==
    { [words |-> <<W_fuck>>,         transcripts |-> <<"fucked", "fucking">>],
      [words |-> <<W_fuck, W_game>>, transcripts |-> <<"both", "fucking">>],
      [words |-> <<W_Fuck, W_fuck>>, transcripts |-> <<"both">>] }

InputWords == UNION {Range(LowerWords(inp.words)) : inp \in Inputs}

\* recognize_google(audio_data).lower() for each transcript, and line 220 for
\* each target word of the inputs (tabulated once).
LowerTranscript == [n \in DOMAIN Transcript |-> Lower(Transcript[n])]
CountTable ==
    [w \in InputWords |-> [n \in DOMAIN Transcript |-> CountMatches(w, LowerTranscript[n])]]

Modes == {"cli", "web"}

(***************************************************************************)
(* collections.Counter and queue.Queue.                                    *)
(***************************************************************************)
\* Counter.__getitem__: a missing key reads as 0 and is not inserted.
CounterGet(c, w) == IF w \in DOMAIN c THEN c[w] ELSE 0

\* Mutant of CounterSet: the table is replaced by one holding only the key
\* that is written.
CounterSetOnly(c, w, v) == [x \in {w} |-> v]

\* Counter.__setitem__
CounterSet(c, w, v) == [x \in DOMAIN c \cup {w} |-> IF x = w THEN v ELSE c[x]]

\* Mutant of InPlaceAdd: an assignment in place of the in-place add.
InPlaceAddOverwrite(old, n) == n

\* The add of  self.word_counts[word] += count  (line 223).
InPlaceAdd(old, n) == old + n

\* Mutant of QueuePut: a queue of depth 2 whose put drops the unit when full.
QueuePutDropWhenFull(q, u) == IF Len(q) >= 2 THEN q ELSE Append(q, u)

\* queue.Queue.put on the unbounded self.audio_queue (line 168).
QueuePut(q, u) == Append(q, u)

\* Mutant of QueueGetItem: the newest item is returned (a LIFO read).
QueueGetNewest(q) == q[Len(q)]

\* queue.Queue.get (line 193): the item returned and the queue left.
QueueGetItem(q) == Head(q)
QueueGetRest(q) == Tail(q)

\* How many entries of self.target_words equal w.
Entries(w) == Cardinality({i \in DOMAIN target_words : target_words[i] = w})

\* The transcript of the sub-clip being matched (line 215), by name.
text == feed[fed]

\* Whole-word occurrences of w in the transcripts recognized so far.
RECURSIVE OccurrencesUpTo(_, _)
OccurrencesUpTo(w, k) ==
    IF k = 0 THEN 0
    ELSE CountTable[w][feed[k]] + OccurrencesUpTo(w, k - 1)

Occurrences(w) == OccurrencesUpTo(w, fed)

(***************************************************************************)
(* Process life: the stage threads are daemon threads, so they end with    *)
(* the process; the process ends at sys.exit(0) in start() (line 88) and,  *)
(* under main(), when start() returns.                                     *)
(***************************************************************************)
ProcessAlive ==
    /\ main_pc # "exited"
    /\ ~(mode = "cli" /\ main_pc = "returned")

(***************************************************************************)
(* Initial state: a constructed TwitchWordCounter (__init__, lines 39-56)  *)
(* and, in the web deployment, the module globals of app.py (lines 20-24). *)
(***************************************************************************)
InitPipeline ==
    /\ running = FALSE
    /\ audio_queue = <<>>
    /\ word_counts = <<>>
    /\ main_pc = "idle" /\ exports = 0 /\ exported = <<>> /\ spawned = 0
    /\ stream_pc = "off" /\ frames = 0 /\ produced = 0 /\ capture_fault = "none"
    /\ proc_pc = "off" /\ audio_file = 0 /\ nchunks = 0 /\ chunk_i = 0
    /\ word_j = 0 /\ tmp = 0
    /\ dequeued = 0 /\ completed = {} /\ failed = {} /\ fed = 0 /\ faults = 0
    /\ unit_files = {} /\ chunk_files = {}
    /\ poll_i = 1 /\ published = <<>>
    /\ start_time = 0 /\ started_at = -1 /\ exported_start = -1
    /\ tables = {word_counts}

InitHarnessIdle ==
    /\ m_word = <<>> /\ m_text = <<>> /\ m_count = 0 /\ m_pc = "off"

InitElapsedIdle ==
    /\ elapsed_pc = "off" /\ elapsed_out = <<>>

Init ==
    /\ mode \in Modes
    /\ \E inp \in Inputs :
          /\ target_words = LowerWords(inp.words)
          /\ feed = inp.transcripts
    /\ now = 0
    /\ InitPipeline
    /\ InitHarnessIdle
    /\ InitElapsedIdle

(***************************************************************************)
(* main thread: TwitchWordCounter.start(), lines 61-88.                    *)
(***************************************************************************)
\* Lines 63-77: set the flag, start both daemon threads, show the counts.
Start ==
    /\ main_pc = "idle"
    /\ running' = TRUE
    /\ stream_pc' = "connect"
    /\ proc_pc' = "check"
    /\ spawned' = spawned + 2
    /\ main_pc' = "loop"
    /\ started_at' = now
    /\ UNCHANGED <<cfgv, audio_queue, word_counts, exports, exported,
                   frames, produced, capture_fault,
                   audio_file, nchunks, chunk_i, word_j, tmp,
                   dequeued, completed, failed, fed, faults,
                   filev, pollv, matchv, now, start_time, exported_start,
                   elapsedv, tables>>

\* Lines 81-82: the flag was cleared by a stage, the loop ends and start()
\* returns (no export on this path).
StartReturns ==
    /\ main_pc = "loop"
    /\ ~running
    /\ main_pc' = "returned"
    /\ UNCHANGED <<cfgv, running, audio_queue, word_counts, exports, exported,
                   spawned, streamv, procv, filev, pollv, matchv,
                   clockv, elapsedv, tables>>

\* Lines 83-85: KeyboardInterrupt reaches the thread that sleeps in the loop
\* of start(). Python delivers it to the main thread only, which runs
\* start() under main() and not under app.py.
KeyboardInterrupt ==
    /\ mode = "cli"
    /\ main_pc = "loop"
    /\ running' = FALSE
    /\ main_pc' = "handler"
    /\ UNCHANGED <<cfgv, audio_queue, word_counts, exports, exported, spawned,
                   streamv, procv, filev, pollv, matchv, clockv, elapsedv, tables>>

\* The record save_stats writes (lines 288-293), counts only.
StatsRecord == [w \in Range(target_words) |-> CounterGet(word_counts, w)]

\* Mutant of SaveStats: the handler goes on to exit without writing.
SaveStatsSkipped ==
    /\ main_pc = "handler"
    /\ main_pc' = "saved"
    /\ UNCHANGED <<cfgv, running, audio_queue, word_counts, exports, exported,
                   spawned, streamv, procv, filev, pollv, matchv,
                   clockv, elapsedv, tables>>

\* Line 86: save_stats(), lines 286-298.
SaveStats ==
    /\ main_pc = "handler"
    /\ exported' = StatsRecord
    /\ exported_start' = start_time
    /\ exports' = exports + 1
    /\ main_pc' = "saved"
    /\ UNCHANGED <<cfgv, running, audio_queue, word_counts, spawned,
                   streamv, procv, filev, pollv, matchv,
                   now, start_time, started_at, elapsedv, tables>>

\* Lines 87-88: sys.exit(0); the daemon threads end with the process.
SysExit ==
    /\ main_pc = "saved"
    /\ main_pc' = "exited"
    /\ UNCHANGED <<cfgv, running, audio_queue, word_counts, exports, exported,
                   spawned, streamv, procv, filev, pollv, matchv,
                   clockv, elapsedv, tables>>

(***************************************************************************)
(* stream thread: TwitchWordCounter.stream_audio(), lines 90-182.          *)
(***************************************************************************)
StreamFrame == <<cfgv, audio_queue, word_counts, mainv, procv, pollv, matchv,
                 clockv, elapsedv, tables>>

\* Lines 96-140 succeed: a stream is found, ffmpeg and the audio device open.
StreamConnectOk ==
    /\ ProcessAlive /\ stream_pc = "connect"
    /\ stream_pc' = "read"
    /\ UNCHANGED <<running, frames, produced, capture_fault, filev, StreamFrame>>

\* Lines 97-99: streamlink finds no stream; sys.exit(1) raises SystemExit,
\* which  except Exception  (line 179) does not catch: the thread ends and
\* line 181 is not reached.
StreamNoStreams ==
    /\ ProcessAlive /\ stream_pc = "connect"
    /\ capture_fault' = "no_streams"
    /\ stream_pc' = "dead"
    /\ UNCHANGED <<running, frames, produced, filev, StreamFrame>>

\* Lines 96-136 raise an Exception (streamlink PluginError, Popen or
\* PyAudio OSError): lines 179-182 clear the flag and end the thread.
StreamRaises ==
    /\ ProcessAlive /\ stream_pc = "connect"
    /\ capture_fault' = "raises"
    /\ running' = FALSE
    /\ stream_pc' = "dead"
    /\ UNCHANGED <<frames, produced, filev, StreamFrame>>

\* Line 122 starts ffmpeg, which cannot open the source and ends at once:
\* Popen succeeds and the pipe is at end-of-file from the first read on.
StreamNoSource ==
    /\ ProcessAlive /\ stream_pc = "connect"
    /\ capture_fault' = "no_source"
    /\ stream_pc' = "read"
    /\ UNCHANGED <<running, frames, produced, filev, StreamFrame>>

\* Line 142 finds the flag cleared: lines 174-177, the thread ends.
StreamStop ==
    /\ ProcessAlive /\ stream_pc = "read"
    /\ ~running
    /\ stream_pc' = "done"
    /\ UNCHANGED <<running, frames, produced, capture_fault, filev, StreamFrame>>

\* Lines 142-155, repeated until len(frames) >= chunks_per_recording: a
\* burst of reads that fills the window (frames is local to the thread).
StreamReadWindow ==
    /\ ProcessAlive /\ stream_pc = "read"
    /\ running
    /\ capture_fault # "no_source"
    /\ produced < MaxUnits
    /\ frames' = chunks_per_recording
    /\ stream_pc' = "package"
    /\ UNCHANGED <<running, produced, capture_fault, filev, StreamFrame>>

\* Lines 142-155: a burst of reads that ends inside a window.
StreamReadPartial ==
    /\ ProcessAlive /\ stream_pc = "read"
    /\ running
    /\ capture_fault # "no_source"
    /\ produced < MaxUnits
    /\ frames = 0
    /\ PartialChunks < chunks_per_recording
    /\ frames' = PartialChunks
    /\ UNCHANGED <<running, stream_pc, produced, capture_fault, filev, StreamFrame>>

\* Lines 144-146: a zero-length read; break, then lines 174-177.
StreamEndOfStream ==
    /\ ProcessAlive /\ stream_pc = "read"
    /\ running
    /\ stream_pc' = "done"
    /\ UNCHANGED <<running, frames, produced, capture_fault, filev, StreamFrame>>

\* Lines 157-165: the window is written to a new temporary WAV file.
StreamPackage ==
    /\ ProcessAlive /\ stream_pc = "package"
    /\ produced' = produced + 1
    /\ unit_files' = unit_files \cup {produced + 1}
    /\ stream_pc' = "put"
    /\ UNCHANGED <<running, frames, capture_fault, chunk_files, StreamFrame>>

\* Lines 168-171: the file name is enqueued and the accumulator reset.
StreamPut ==
    /\ ProcessAlive /\ stream_pc = "put"
    /\ audio_queue' = QueuePut(audio_queue, produced)
    /\ frames' = 0
    /\ stream_pc' = "read"
    /\ UNCHANGED <<cfgv, running, word_counts, mainv, produced, capture_fault,
                   procv, filev, pollv, matchv, clockv, elapsedv, tables>>

(***************************************************************************)
(* proc thread: TwitchWordCounter.process_audio(), lines 184-252.          *)
(* chunk_i counts the sub-clips from 1 (enumerate counts from 0); locals   *)
(* that are dead at the top of the loop are reset to 0 there.              *)
(***************************************************************************)
ProcFrame == <<cfgv, mainv, streamv, pollv, matchv, clockv, elapsedv, tables>>

\* Mutant of ProcCheck: the loop is  while True , the flag is not read.
ProcCheckWhileTrue ==
    /\ ProcessAlive /\ proc_pc = "check"
    /\ proc_pc' = "poll"
    /\ UNCHANGED <<running, audio_queue, word_counts, audio_file, nchunks,
                   chunk_i, word_j, tmp, dequeued, completed, failed, fed,
                   faults, filev, ProcFrame>>

\* Line 186: while self.running.
ProcCheck ==
    /\ ProcessAlive /\ proc_pc = "check"
    /\ proc_pc' = IF running THEN "poll" ELSE "done"
    /\ UNCHANGED <<running, audio_queue, word_counts, audio_file, nchunks,
                   chunk_i, word_j, tmp, dequeued, completed, failed, fed,
                   faults, filev, ProcFrame>>

\* Lines 189-191: the queue is empty; sleep 0.1 s and continue.
ProcQueueEmpty ==
    /\ ProcessAlive /\ proc_pc = "poll"
    /\ audio_queue = <<>>
    /\ proc_pc' = "check"
    /\ UNCHANGED <<running, audio_queue, word_counts, audio_file, nchunks,
                   chunk_i, word_j, tmp, dequeued, completed, failed, fed,
                   faults, filev, ProcFrame>>

\* Line 193: audio_file = self.audio_queue.get()
ProcGet ==
    /\ ProcessAlive /\ proc_pc = "poll"
    /\ audio_queue # <<>>
    /\ audio_file' = QueueGetItem(audio_queue)
    /\ audio_queue' = QueueGetRest(audio_queue)
    /\ dequeued' = dequeued + 1
    /\ proc_pc' = "load"
    /\ UNCHANGED <<running, word_counts, nchunks, chunk_i, word_j, tmp,
                   completed, failed, fed, faults, filev, ProcFrame>>

\* Mutant of OnProcessingError: the error clears the flag and ends the loop.
OnProcessingErrorFatal ==
    /\ failed' = failed \cup {audio_file}
    /\ faults' = faults + 1
    /\ running' = FALSE
    /\ proc_pc' = "done"
    /\ nchunks' = 0 /\ chunk_i' = 0 /\ word_j' = 0 /\ tmp' = 0

\* Lines 250-252: the handler of the loop body; the unit is abandoned (lines
\* 236-248 are skipped) and the loop continues.
OnProcessingError ==
    /\ failed' = failed \cup {audio_file}
    /\ faults' = faults + 1
    /\ running' = running
    /\ proc_pc' = "check"
    /\ nchunks' = 0 /\ chunk_i' = 0 /\ word_j' = 0 /\ tmp' = 0

\* Lines 196-203: the WAV file loads and split_on_silence yields n sub-clips.
ProcLoad ==
    /\ ProcessAlive /\ proc_pc = "load"
    /\ \E n \in 0..MaxClips :
          /\ nchunks' = n
          /\ chunk_i' = IF n = 0 THEN 0 ELSE 1
          /\ proc_pc' = IF n = 0 THEN "rmunit" ELSE "clip"
    /\ UNCHANGED <<running, audio_queue, word_counts, audio_file, word_j, tmp,
                   dequeued, completed, failed, fed, faults, filev, ProcFrame>>

\* Line 196: AudioSegment.from_wav raises on a malformed or corrupt unit.
ProcLoadCorrupt ==
    /\ ProcessAlive /\ proc_pc = "load"
    /\ faults < MaxFaults
    /\ OnProcessingError
    /\ UNCHANGED <<audio_queue, word_counts, audio_file, dequeued, completed,
                   fed, filev, ProcFrame>>

\* Lines 208-215: the sub-clip is exported and recognized; the service
\* yields the next transcript, which is lower-cased.
ProcRecognized ==
    /\ ProcessAlive /\ proc_pc = "clip"
    /\ fed < Len(feed)
    /\ fed' = fed + 1
    /\ chunk_files' = chunk_files \cup {<<audio_file, chunk_i>>}
    /\ word_j' = 1
    /\ proc_pc' = "match"
    /\ UNCHANGED <<running, audio_queue, word_counts, audio_file, nchunks,
                   chunk_i, tmp, dequeued, completed, failed, faults,
                   unit_files, ProcFrame>>

\* Lines 229-231: sr.UnknownValueError, the speech was unintelligible.
ProcUnknownValue ==
    /\ ProcessAlive /\ proc_pc = "clip"
    /\ chunk_files' = chunk_files \cup {<<audio_file, chunk_i>>}
    /\ proc_pc' = "rmchunk"
    /\ UNCHANGED <<running, audio_queue, word_counts, audio_file, nchunks,
                   chunk_i, word_j, tmp, dequeued, completed, failed, fed,
                   faults, unit_files, ProcFrame>>

\* Lines 232-233: sr.RequestError, the service failed; logged, next sub-clip.
ProcRequestError ==
    /\ ProcessAlive /\ proc_pc = "clip"
    /\ faults < MaxFaults
    /\ faults' = faults + 1
    /\ chunk_files' = chunk_files \cup {<<audio_file, chunk_i>>}
    /\ proc_pc' = "rmchunk"
    /\ UNCHANGED <<running, audio_queue, word_counts, audio_file, nchunks,
                   chunk_i, word_j, tmp, dequeued, completed, failed, fed,
                   unit_files, ProcFrame>>

\* Lines 209-213: the sub-clip file is written but sr.AudioFile / record
\* raises on it (malformed sub-clip): the handler of lines 250-252 runs.
ProcClipRaises ==
    /\ ProcessAlive /\ proc_pc = "clip"
    /\ faults < MaxFaults
    /\ chunk_files' = chunk_files \cup {<<audio_file, chunk_i>>}
    /\ OnProcessingError
    /\ UNCHANGED <<audio_queue, word_counts, audio_file, dequeued, completed,
                   fed, unit_files, ProcFrame>>

\* The target word at hand and its count, lines 218-220.
word  == target_words[word_j]
count == CountTable[word][text]

\* Mutant of Matched: the in-place add is done for every target word.
MatchedAlways == TRUE

\* Line 222: if count > 0
Matched == count > 0

\* After a target word: the next one, or the end of the for loop (line 218).
NextWord ==
    IF word_j < Len(target_words)
    THEN word_j' = word_j + 1 /\ proc_pc' = "match"
    ELSE word_j' = 0 /\ proc_pc' = "rmchunk"

\* Lines 218-222, and for count > 0 the read of  self.word_counts[word] += count.
ProcMatch ==
    /\ ProcessAlive /\ proc_pc = "match"
    /\ IF Matched
       THEN /\ tmp' = CounterGet(word_counts, word)
            /\ proc_pc' = "store"
            /\ word_j' = word_j
       ELSE /\ tmp' = tmp
            /\ NextWord
    /\ UNCHANGED <<running, audio_queue, word_counts, audio_file, nchunks,
                   chunk_i, dequeued, completed, failed, fed, faults, filev,
                   ProcFrame>>

\* Line 223, the write of  self.word_counts[word] += count ; lines 224-228.
ProcStore ==
    /\ ProcessAlive /\ proc_pc = "store"
    /\ word_counts' = CounterSet(word_counts, word, InPlaceAdd(tmp, count))
    /\ tables' = tables \cup {word_counts'}
    /\ tmp' = 0
    /\ NextWord
    /\ UNCHANGED <<running, audio_queue, audio_file, nchunks, chunk_i,
                   dequeued, completed, failed, fed, faults, filev,
                   cfgv, mainv, streamv, pollv, matchv, clockv, elapsedv>>

\* Lines 236-239: the sub-clip file is removed; the next sub-clip, if any.
ProcRemoveChunk ==
    /\ ProcessAlive /\ proc_pc = "rmchunk"
    /\ chunk_files' = chunk_files \ {<<audio_file, chunk_i>>}
    /\ IF chunk_i < nchunks
       THEN chunk_i' = chunk_i + 1 /\ proc_pc' = "clip"
       ELSE chunk_i' = chunk_i /\ proc_pc' = "rmunit"
    /\ UNCHANGED <<running, audio_queue, word_counts, audio_file, nchunks,
                   word_j, tmp, dequeued, completed, failed, fed, faults,
                   unit_files, ProcFrame>>

\* Lines 242-248: the unit's file is removed and the task marked done.
ProcRemoveUnit ==
    /\ ProcessAlive /\ proc_pc = "rmunit"
    /\ unit_files' = unit_files \ {audio_file}
    /\ completed' = completed \cup {audio_file}
    /\ proc_pc' = "check"
    /\ nchunks' = 0 /\ chunk_i' = 0
    /\ UNCHANGED <<running, audio_queue, word_counts, audio_file, word_j, tmp,
                   dequeued, failed, fed, faults, chunk_files, ProcFrame>>

(***************************************************************************)
(* poll thread: app.update_counts(), lines 43-57. One step per target word *)
(* copies its count into the module global word_counts of app.py.          *)
(***************************************************************************)
PollWord ==
    /\ mode = "web"
    /\ ProcessAlive
    /\ published' = CounterSet(published, target_words[poll_i],
                               CounterGet(word_counts, target_words[poll_i]))
    /\ poll_i' = IF poll_i < Len(target_words) THEN poll_i + 1 ELSE 1
    /\ UNCHANGED <<cfgv, running, audio_queue, word_counts, mainv, streamv,
                   procv, filev, matchv, clockv, elapsedv, tables>>

(***************************************************************************)
(* The program.                                                            *)
(***************************************************************************)
Next ==
    \/ Start \/ StartReturns \/ KeyboardInterrupt \/ SaveStats \/ SysExit
    \/ StreamConnectOk \/ StreamNoStreams \/ StreamRaises \/ StreamNoSource
    \/ StreamStop \/ StreamReadWindow \/ StreamReadPartial \/ StreamEndOfStream
    \/ StreamPackage \/ StreamPut
    \/ ProcCheck \/ ProcQueueEmpty \/ ProcGet \/ ProcLoad \/ ProcLoadCorrupt
    \/ ProcRecognized \/ ProcUnknownValue \/ ProcRequestError \/ ProcClipRaises
    \/ ProcMatch \/ ProcStore \/ ProcRemoveChunk \/ ProcRemoveUnit
    \/ PollWord

Spec == Init /\ [][Next]_vars

\* The steps of the two stage threads.
StreamStep ==
    \/ StreamConnectOk \/ StreamNoStreams \/ StreamRaises \/ StreamNoSource
    \/ StreamStop \/ StreamReadWindow \/ StreamReadPartial \/ StreamEndOfStream
    \/ StreamPackage \/ StreamPut

ProcStep ==
    \/ ProcCheck \/ ProcQueueEmpty \/ ProcGet \/ ProcLoad \/ ProcLoadCorrupt
    \/ ProcRecognized \/ ProcUnknownValue \/ ProcRequestError \/ ProcClipRaises
    \/ ProcMatch \/ ProcStore \/ ProcRemoveChunk \/ ProcRemoveUnit

\* The program with both stage threads scheduled and every external call
\* (pipe read, split, recognition, file operation) returning: a stage thread
\* that can take a step eventually takes one.
InitFair == Init /\ feed = <<"both">>

SpecFair == InitFair /\ [][Next]_vars /\ WF_vars(StreamStep) /\ WF_vars(ProcStep)

(***************************************************************************)
(* A caller that calls start() again on an instance whose start() has      *)
(* returned (lines 61-77 have no guard on the state of the instance). The  *)
(* model takes the call once the earlier stage threads have ended.         *)
(***************************************************************************)
Restart ==
    /\ mode = "web"
    /\ main_pc = "returned"
    /\ stream_pc \in {"dead", "done"}
    /\ proc_pc = "done"
    /\ spawned < 2 * (1 + MaxRestarts)
    /\ running' = TRUE
    /\ stream_pc' = "connect" /\ frames' = 0 /\ capture_fault' = "none"
    /\ proc_pc' = "check"
    /\ spawned' = spawned + 2
    /\ main_pc' = "loop"
    /\ started_at' = now
    /\ UNCHANGED <<cfgv, audio_queue, word_counts, exports, exported, produced,
                   audio_file, nchunks, chunk_i, word_j, tmp,
                   dequeued, completed, failed, fed, faults,
                   filev, pollv, matchv, now, start_time, exported_start,
                   elapsedv, tables>>

NextRestart == Next \/ Restart

SpecRestart == Init /\ [][NextRestart]_vars

(***************************************************************************)
(* The program with the wall clock advancing: datetime.now() is read by    *)
(* __init__ (line 44), save_stats (line 292) and get_elapsed_time (line    *)
(* 256); a tick is one second passing, at any point of the run.            *)
(***************************************************************************)
Tick ==
    /\ now < MaxClock
    /\ now' = now + 1
    /\ UNCHANGED <<cfgv, running, audio_queue, word_counts, mainv, streamv,
                   procv, filev, pollv, matchv, start_time, started_at,
                   exported_start, elapsedv, tables>>

NextClock == Next \/ Tick

SpecClock == Init /\ [][NextClock]_vars

\* The lifecycle state of the Session Controller, read off the instance.
Lifecycle ==
    IF running THEN "Running"
    ELSE IF spawned = 0 THEN "Idle" ELSE "Stopped"

(***************************************************************************)
(* The Word Matcher on its own: lines 42, 215 and 219-220 applied to one   *)
(* configured word and one recognized text, over every word and text up to *)
(* the bounds on a small alphabet (a letter in both cases, a punctuation   *)
(* character, the underscore and the space).                               *)
(***************************************************************************)
Alphabet == {"a", "A", "+", "_", " "}

RECURSIVE Strings(_)
Strings(n) ==
    IF n = 0 THEN {<<>>}
    ELSE LET shorter == Strings(n - 1)
         IN  shorter \cup {Append(t, c) : t \in {x \in shorter : Len(x) = n - 1},
                                          c \in Alphabet}

InitMatch ==
    /\ m_word \in Strings(MaxWordLen) \ {<<>>}
    /\ m_text \in Strings(MaxTextLen)
    /\ m_count = 0
    /\ m_pc = "ready"
    /\ mode = "cli"
    /\ target_words = <<Lower(m_word)>>
    /\ feed = <<>>
    /\ now = 0
    /\ InitPipeline
    /\ InitElapsedIdle

\* count = len(re.findall(r'\b' + re.escape(word) + r'\b', text)) with
\* word = configured.lower() and text = recognized.lower().
MatchApply ==
    /\ m_pc = "ready"
    /\ m_count' = CountMatches(target_words[1], Lower(m_text))
    /\ m_pc' = "done"
    /\ UNCHANGED <<cfgv, running, audio_queue, word_counts, mainv, streamv,
                   procv, filev, pollv, m_word, m_text,
                   clockv, elapsedv, tables>>

NextMatch == MatchApply

SpecMatch == InitMatch /\ [][NextMatch]_vars

(***************************************************************************)
(* get_elapsed_time on its own, lines 254-264, over every whole-second     *)
(* session length up to MaxElapsed (which is past one day).                *)
(***************************************************************************)
\* Mutant of TimedeltaSeconds: the whole duration, as total_seconds() gives.
TimedeltaTotalSeconds(d) == d

\* timedelta.seconds: the seconds field of the normalized duration, which
\* holds days, seconds (0..86399) and microseconds apart.
TimedeltaSeconds(d) == d % (24 * 3600)

\* divmod(a, b)
DivMod(a, b) == <<a \div b, a % b>>

\* Lines 256-264.
ElapsedTime(t_now, t_start) ==
    LET elapsed_seconds == TimedeltaSeconds(t_now - t_start)
        hr == DivMod(elapsed_seconds, 3600)
        ms == DivMod(hr[2], 60)
    IN  [hours |-> hr[1], minutes |-> ms[1], seconds |-> ms[2]]

InitElapsed ==
    /\ now \in 0..MaxElapsed
    /\ elapsed_pc = "ready" /\ elapsed_out = <<>>
    /\ mode = "web"
    /\ target_words = <<W_fuck>>
    /\ feed = <<>>
    /\ InitPipeline
    /\ InitHarnessIdle

\* app.update_counts line 52: elapsed_time = counter.get_elapsed_time()
GetElapsedTime ==
    /\ elapsed_pc = "ready"
    /\ elapsed_out' = ElapsedTime(now, start_time)
    /\ elapsed_pc' = "done"
    /\ UNCHANGED <<cfgv, running, audio_queue, word_counts, mainv, streamv,
                   procv, filev, pollv, matchv, clockv, tables>>

NextElapsed == GetElapsedTime

SpecElapsed == InitElapsed /\ [][NextElapsed]_vars

(***************************************************************************)
(* Properties.                                                             *)
(***************************************************************************)
\* The consumer is between units: every sub-clip it dequeued is processed.
Quiescent == proc_pc \in {"off", "check", "poll", "done"}

\* A unit is being processed by the consumer.
InProgress == proc_pc \in {"load", "clip", "match", "store", "rmchunk", "rmunit"}

\* C1: at every quiescent point the counter of each target word equals the
\* sum of the match counts the matcher produced for it over the sub-clips
\* that were transcribed (one per entry of the target list that names the
\* word, times the whole-word occurrences in the transcripts), under every
\* interleaving of the segmenter, the consumer and the polling thread.
C1_NoLostUpdates ==
    Quiescent =>
        \A w \in Range(target_words) :
            CounterGet(word_counts, w) = Entries(w) * Occurrences(w)

\* C1 witness: in the web deployment, with the polling thread having
\* published, both transcripts of the two-word input are counted and two
\* increments of the same word have accumulated.
C1_Witness ==
    /\ Quiescent
    /\ mode = "web"
    /\ target_words = <<W_fuck, W_game>>
    /\ fed = 2
    /\ CounterGet(word_counts, W_game) = 2
    /\ CounterGet(published, W_fuck) = 2

\* Units are numbered in capture order. The queue holds exactly the enqueued
\* units not yet dequeued, in that order, and the unit at hand is the latest
\* one dequeued.
QueueInCaptureOrder ==
    /\ \A i \in DOMAIN audio_queue : audio_queue[i] = dequeued + i
    /\ dequeued + Len(audio_queue) = IF stream_pc = "put" THEN produced - 1 ELSE produced
    /\ InProgress => audio_file = dequeued

\* A step of the consumer within a unit: the first sub-clip taken is the
\* first, each next one is the successor, and the unit ends after the last.
SubClipsInOrder ==
    /\ (proc_pc = "load" /\ proc_pc' = "clip") => chunk_i' = 1
    /\ (proc_pc = "rmchunk" /\ proc_pc' = "clip") =>
            (chunk_i' = chunk_i + 1 /\ audio_file' = audio_file)
    /\ (proc_pc = "rmchunk" /\ proc_pc' = "rmunit") => chunk_i = nchunks

\* C2: the k-th unit the consumer dequeues is the k-th unit the segmenter
\* enqueued, the queue holds the units not yet dequeued in capture order
\* without repetition or invention, and within a unit the sub-clips are
\* recognized and matched in their order from the first one on.
C2_CaptureOrder == [](QueueInCaptureOrder) /\ [][SubClipsInOrder]_vars

\* C2 witness: the third unit is being processed at its second sub-clip
\* after the first two units were completed.
C2_Witness ==
    /\ audio_file = 3 /\ proc_pc = "clip" /\ chunk_i = 2
    /\ completed = {1, 2}

\* A step on which a per-unit failure happens.
FailureStep ==
    faults' > faults =>
        /\ running' = running
        /\ audio_queue' = audio_queue
        /\ word_counts' = word_counts
        /\ proc_pc' \in {"check", "rmchunk"}

\* The state between units once a failure has happened.
AfterFailure ==
    (faults > 0 /\ Quiescent) =>
        /\ completed \cup failed = 1..dequeued
        /\ completed \cap failed = {}
        /\ \A w \in Range(target_words) :
               CounterGet(word_counts, w) = Entries(w) * Occurrences(w)

\* C3: a per-unit failure (a RequestError of the service, a corrupt unit, a
\* malformed sub-clip) leaves the running flag as it is, leaves the queue
\* and the counts untouched and returns the consumer to its loop; every unit
\* dequeued is then either completed or failed, and the counts are those of
\* all the sub-clips that were transcribed.
C3_PerUnitFailureContained == [](AfterFailure) /\ [][FailureStep]_vars

\* C3 witness: the first unit failed, the session is still running and the
\* two later units were completed with every transcript counted.
C3_Witness ==
    /\ failed = {1} /\ completed = {2, 3}
    /\ running
    /\ Quiescent
    /\ fed = Len(feed)
    /\ target_words = <<W_fuck, W_game>>
    /\ CounterGet(word_counts, W_game) = 2

\* End-to-end scenario 1 has run to its end.
Scenario1Done ==
    /\ target_words = <<W_fuck>>
    /\ feed = <<"fucked", "fucking">>
    /\ fed = 2
    /\ Quiescent

\* C4 as stated: scenario 1 ends with the count of "fuck" equal to 2.
C4_Scenario1CountsTwo ==
    Scenario1Done => CounterGet(word_counts, W_fuck) = 2

\* C4 as amended: scenario 1 ends with the count of "fuck" equal to 0 and
\* no counter entry, as neither transcript holds "fuck" as a whole word.
C4_Scenario1CountsZero ==
    Scenario1Done =>
        /\ CounterGet(word_counts, W_fuck) = 0
        /\ word_counts = <<>>

\* C4 witness: scenario 1 has run to its end with both units completed.
C4_Witness == Scenario1Done /\ Cardinality(completed) >= 1

\* The count the specification asks for: non-overlapping occurrences of w in
\* t, compared without regard to case, with no alphanumeric character on
\* either side.
NoAlnumAt(t, k) == ~(k >= 1 /\ k <= Len(t) /\ IsAlnum(t[k]))

WholeWordAt(w, t, k) ==
    /\ LiteralAt(Lower(w), Lower(t), k)
    /\ NoAlnumAt(t, k - 1)
    /\ NoAlnumAt(t, k + Len(w))

RECURSIVE WholeWordFrom(_, _, _)
WholeWordFrom(w, t, k) ==
    IF k > Len(t) THEN 0
    ELSE IF WholeWordAt(w, t, k)
         THEN 1 + WholeWordFrom(w, t, k + Len(w))
         ELSE WholeWordFrom(w, t, k + 1)

\* C5: for every transcript and target word, the count the matcher adds is
\* the number of non-overlapping, case-insensitive occurrences of the word
\* that have no alphanumeric neighbour on either side.
C5_WholeWordCount ==
    m_pc = "done" => m_count = WholeWordFrom(m_word, m_text, 1)

C7_ExportAfterStages ==
    exports >= 1 =>
        /\ stream_pc \in {"done", "dead"}
        /\ proc_pc = "done"
        /\ \A w \in Range(target_words) : exported[w] = CounterGet(word_counts, w)

\* C8: once the capture stage has ended on a failure to acquire its source
\* (no stream for the channel, the transcoder cannot open the source, the
\* resolver or the transcoder raised), the running flag is cleared.
C8_FatalCaptureStops ==
    (capture_fault # "none" /\ stream_pc \in {"dead", "done"}) => ~running

\* C9: Stopped is terminal: no step takes a stopped instance out of Stopped
\* or spawns stage threads for it.
C9_StoppedIsTerminal ==
    [][Lifecycle = "Stopped" => (Lifecycle' = "Stopped" /\ spawned' = spawned)]_vars

\* C10 as stated: the work queue never holds more than 2 units.
C10_QueueAtMostTwo == Len(audio_queue) <= 2

\* C10 as amended: the queue is unbounded and nothing is dropped: every unit
\* the segmenter produced is exactly one of held by the segmenter, in the
\* queue (once), or handed to the consumer.
C10_NoUnitDropped ==
    LET held   == IF stream_pc = "put" THEN {produced} ELSE {}
        queued == Range(audio_queue)
        handed == 1..dequeued
    IN  /\ held \cup queued \cup handed = 1..produced
        /\ held \cap queued = {} /\ held \cap handed = {} /\ queued \cap handed = {}
        /\ Cardinality(queued) = Len(audio_queue)

\* C10 witness: the consumer has taken nothing and the queue holds three
\* units, one more than the depth of the scenario.
C10_Witness ==
    /\ dequeued = 0
    /\ Len(audio_queue) = 3

\* C11: a zero-length read that finds the accumulator holding a partial
\* window makes the segmenter package and enqueue that accumulation as one
\* final unit: the step that ends the read loop on end-of-stream with
\* frames held produces a unit from them.
C11_PartialWindowFlushed ==
    [][(stream_pc = "read" /\ running /\ frames > 0 /\ stream_pc' = "done")
          => (produced' = produced + 1 /\ frames' = 0)]_vars

\* C12: the per-word counts exposed to the presentation layer (the counts
\* published by the polling thread) are, at every moment, the contents the
\* counter table had at one single point in time: some table value of the
\* session agrees with the published counts on every published word.
C12_SnapshotConsistent ==
    \E T \in tables :
        \A w \in DOMAIN published : published[w] = CounterGet(T, w)

\* C13: for every elapsed whole-second duration E >= 0 the elapsed time is
\* reported as hours in 0..23, minutes in 0..59 and seconds in 0..59 with
\* hours*3600 + minutes*60 + seconds = E mod 86400; E = 3725 is reported as
\* 1 hour, 2 minutes, 5 seconds.
C13_ElapsedComponents ==
    elapsed_pc = "done" =>
        LET E == now - start_time
            r == elapsed_out
        IN  /\ r.hours \in 0..23 /\ r.minutes \in 0..59 /\ r.seconds \in 0..59
            /\ r.hours * 3600 + r.minutes * 60 + r.seconds = E % 86400
            /\ E = 3725 => r = [hours |-> 1, minutes |-> 2, seconds |-> 5]

\* C13 witness: a session of 3725 seconds has been reported.
C13_Witness ==
    /\ elapsed_pc = "done"
    /\ now - start_time = 3725
    /\ elapsed_out.hours = 1 /\ elapsed_out.minutes = 2 /\ elapsed_out.seconds = 5

\* C13 witness past one day: a session of a day and an hour is reported as
\* one hour.
C13_WitnessWrap ==
    /\ elapsed_pc = "done"
    /\ now - start_time = 24 * 3600 + 3600
    /\ elapsed_out.hours = 1

\* Both stage loops have ended (or the process has).
StagesEnded ==
    \/ ~ProcessAlive
    \/ (stream_pc \in {"dead", "done"} /\ proc_pc = "done")

\* A step of the consumer at the top of its loop with the flag cleared: it
\* leaves the loop whatever the queue holds, and takes nothing from it.
ExitsWithoutDraining ==
    (proc_pc = "check" /\ ~running /\ proc_pc' # proc_pc) =>
        (proc_pc' = "done" /\ audio_queue' = audio_queue /\ dequeued' = dequeued)

\* C14: once the running flag is cleared both stage loops end: the consumer
\* leaves its loop at the next test of the flag without draining the queue,
\* it never waits on an empty queue, and the units still queued stay there.
C14_ShutdownTerminates ==
    /\ ((~running /\ spawned > 0) ~> StagesEnded)
    /\ [][ExitsWithoutDraining]_vars

\* C14 witness: the flag was cleared by the interrupt, both stage loops have
\* ended while the process lives, and two units are left in the queue.
C14_Witness ==
    /\ ~running /\ ProcessAlive
    /\ stream_pc = "done" /\ proc_pc = "done"
    /\ Len(audio_queue) = 2

\* C15 as stated: in every reachable state the key set of the counter table
\* is exactly the set of target words.
C15_KeysExactlyTargets == DOMAIN word_counts = Range(target_words)

\* C15 as amended: no key outside the target words is ever present; a target
\* word has a key from its first match on and reads as 0 before it; the
\* export holds exactly the target words.
C15_KeysWithinTargets ==
    /\ DOMAIN word_counts \subseteq Range(target_words)
    /\ \A w \in Range(target_words) :
          /\ CounterGet(word_counts, w) >= 0
          /\ w \in DOMAIN word_counts <=> CounterGet(word_counts, w) >= 1
    /\ exports >= 1 => DOMAIN exported = Range(target_words)

\* C15 witness: of two target words one has matched and has its key, the
\* other has not matched yet and has none, and the export was written.
C15_Witness ==
    /\ target_words = <<W_fuck, W_game>>
    /\ DOMAIN word_counts = {W_fuck}
    /\ exports = 1
    /\ exported[W_game] = 0

\* C16: counts never go down: on every step of any thread each target
\* word's count afterwards is at least its count before, no key is removed,
\* and a step that changes the table is the consumer's store, raising the
\* count of the word at hand by at least 1 and leaving the others alone.
C16_CountsMonotonic ==
    [][/\ \A w \in Range(target_words) :
             CounterGet(word_counts', w) >= CounterGet(word_counts, w)
       /\ DOMAIN word_counts \subseteq DOMAIN word_counts'
       /\ word_counts' # word_counts =>
             /\ proc_pc = "store"
             /\ CounterGet(word_counts', word) >= CounterGet(word_counts, word) + 1
             /\ \A w \in Range(target_words) \ {word} :
                    CounterGet(word_counts', w) = CounterGet(word_counts, w)]_vars

\* C16 witness: after the session was stopped and exported, a word's count
\* has been raised twice and stands at 2 with the other word's count held.
C16_Witness ==
    /\ target_words = <<W_fuck, W_game>>
    /\ CounterGet(word_counts, W_game) = 2
    /\ CounterGet(word_counts, W_fuck) = 2
    /\ main_pc = "exited"

\* C17: by the time the consumer is between units, every unit it dequeued
\* has had its temporary file removed, on the success path and on every
\* failure path, no sub-clip file is left, and each dequeued unit is
\* accounted for once, as completed or as failed.
C17_DequeuedUnitsDestroyed ==
    Quiescent =>
        /\ unit_files \cap (1..dequeued) = {}
        /\ chunk_files = {}
        /\ completed \cup failed = 1..dequeued
        /\ completed \cap failed = {}

\* C18: the session clock is the time at which start() took the session
\* from Idle to Running: once the session has started, self.start_time is
\* that time, it stays so, and the start_time of the export is that time.
C18_ClockSetAtStart ==
    /\ spawned > 0 => start_time = started_at
    /\ exports >= 1 => exported_start = started_at

\* C19: every unit the segmenter enqueues holds exactly
\* windowDuration * sampleRate * channels * bytesPerSample bytes (160000 at
\* the defaults), and the accumulator is empty right after the enqueue.
C19_WindowSize ==
    [][(stream_pc = "put" /\ stream_pc' = "read") =>
          (FrameBytes(frames) = WindowBytes /\ WindowBytes = 160000 /\ frames' = 0)]_vars

\* C20: the target words in use are unique, and between units the count of
\* each target word is the number of its whole-word occurrences in the
\* transcripts recognized so far: one per occurrence, also when the
\* configured list names a word more than once.
C20_OnePerOccurrence ==
    (Quiescent /\ fed > 0) =>
        /\ Cardinality(Range(target_words)) = Len(target_words)
        /\ \A w \in Range(target_words) :
               CounterGet(word_counts, w) = Occurrences(w)

====
